---- MODULE Spec2Model ----
(***************************************************************************)
(* Morse-code audio steganography (morse_utils.py, steg_core.py, cli.py).  *)
(*                                                                         *)
(* Python strings are modelled as sequences of one-character strings, a    *)
(* WAV file as the flat sequence of its signed 16-bit samples, and the     *)
(* file system as a function from path to file content.  A call that       *)
(* raises is recorded as a result record whose kind is the exception name. *)
(***************************************************************************)
EXTENDS Integers, Sequences, FiniteSets, TLC

VARIABLES
    pc,                 \* position of the driver: which call comes next
    message,            \* the text given to text_to_morse / embed_message
    progress_callback,  \* TRUE: a callback is passed; FALSE: None
    files,              \* path -> sample sequence, or Absent
    samples,            \* embed_message: the buffer returned by read_wav_file
    samples_mod,        \* embed_message: the modified copy
    embed_result,       \* outcome of embed_message
    stego_wav,          \* path given to extract_message
    extract_result,     \* outcome of extract_message
    morse,              \* result of text_to_morse
    bitstream,          \* result of morse_to_bitstream / input of bitstream_to_morse
    decoded,            \* outcome of bitstream_to_morse
    text                \* result of morse_to_text

vars == <<pc, message, progress_callback, files, samples, samples_mod,
          embed_result, stego_wav, extract_result, morse, bitstream,
          decoded, text>>

-----------------------------------------------------------------------------
(* Bounds of the model *)

\* longest message, in characters
MaxMsgLen == 3

\* characters messages are built from: letters in both cases, a dot-only and
\* a dash-only letter, the space, and one character outside the alphabet
Chars == {"H", "I", "e", "t", " ", "#"}

-----------------------------------------------------------------------------
(* morse_utils.py *)

MORSE_CODE_DICT ==
    <<
       <<"A", <<".", "-">> >>, <<"B", <<"-", ".", ".", ".">> >>, <<"C", <<"-", ".", "-", ".">> >>,
       <<"D", <<"-", ".", ".">> >>, <<"E", <<".">> >>, <<"F", <<".", ".", "-", ".">> >>,
       <<"G", <<"-", "-", ".">> >>, <<"H", <<".", ".", ".", ".">> >>, <<"I", <<".", ".">> >>,
       <<"J", <<".", "-", "-", "-">> >>, <<"K", <<"-", ".", "-">> >>, <<"L", <<".", "-", ".", ".">> >>,
       <<"M", <<"-", "-">> >>, <<"N", <<"-", ".">> >>, <<"O", <<"-", "-", "-">> >>,
       <<"P", <<".", "-", "-", ".">> >>, <<"Q", <<"-", "-", ".", "-">> >>, <<"R", <<".", "-", ".">> >>,
       <<"S", <<".", ".", ".">> >>, <<"T", <<"-">> >>, <<"U", <<".", ".", "-">> >>,
       <<"V", <<".", ".", ".", "-">> >>, <<"W", <<".", "-", "-">> >>, <<"X", <<"-", ".", ".", "-">> >>,
       <<"Y", <<"-", ".", "-", "-">> >>, <<"Z", <<"-", "-", ".", ".">> >>, <<"1", <<".", "-", "-", "-", "-">> >>,
       <<"2", <<".", ".", "-", "-", "-">> >>, <<"3", <<".", ".", ".", "-", "-">> >>, <<"4", <<".", ".", ".", ".", "-">> >>,
       <<"5", <<".", ".", ".", ".", ".">> >>, <<"6", <<"-", ".", ".", ".", ".">> >>, <<"7", <<"-", "-", ".", ".", ".">> >>,
       <<"8", <<"-", "-", "-", ".", ".">> >>, <<"9", <<"-", "-", "-", "-", ".">> >>, <<"0", <<"-", "-", "-", "-", "-">> >>,
       <<",", <<"-", "-", ".", ".", "-", "-">> >>, <<".", <<".", "-", ".", "-", ".", "-">> >>, <<"?", <<".", ".", "-", "-", ".", ".">> >>,
       <<"/", <<"-", ".", ".", "-", ".">> >>, <<"-", <<"-", ".", ".", ".", ".", "-">> >>, <<"(", <<"-", ".", "-", "-", ".">> >>,
       <<")", <<"-", ".", "-", "-", ".", "-">> >>, <<" ", <<"/">> >>
    >>

\* str.upper() on one character
UpperTable ==
    << <<"a", "A">>, <<"b", "B">>, <<"c", "C">>, <<"d", "D">>, <<"e", "E">>, <<"f", "F">>,
       <<"g", "G">>, <<"h", "H">>, <<"i", "I">>, <<"j", "J">>, <<"k", "K">>, <<"l", "L">>,
       <<"m", "M">>, <<"n", "N">>, <<"o", "O">>, <<"p", "P">>, <<"q", "Q">>, <<"r", "R">>,
       <<"s", "S">>, <<"t", "T">>, <<"u", "U">>, <<"v", "V">>, <<"w", "W">>, <<"x", "X">>,
       <<"y", "Y">>, <<"z", "Z">> >>

\* dict lookup with default; in a dict built from pairs a later pair with
\* the same key replaces an earlier one
RECURSIVE LookupFrom(_, _, _, _)
LookupFrom(pairs, key, default, i) ==
    IF i = 0 THEN default
    ELSE IF pairs[i][1] = key THEN pairs[i][2]
    ELSE LookupFrom(pairs, key, default, i - 1)

Get(pairs, key, default) == LookupFrom(pairs, key, default, Len(pairs))

upper(c) == Get(UpperTable, c, c)

\* {v: k for k, v in MORSE_CODE_DICT.items()}
REVERSE_MORSE_CODE_DICT ==
    [i \in 1..Len(MORSE_CODE_DICT) |->
        <<MORSE_CODE_DICT[i][2], <<MORSE_CODE_DICT[i][1]>> >>]

\* sep.join(parts)
RECURSIVE Join(_, _)
Join(sep, parts) ==
    IF Len(parts) = 0 THEN <<>>
    ELSE IF Len(parts) = 1 THEN parts[1]
    ELSE parts[1] \o sep \o Join(sep, Tail(parts))

\* s.split(sep) for a one-character separator: empty pieces are kept
RECURSIVE SplitFrom(_, _, _, _)
SplitFrom(s, sep, i, cur) ==
    IF i > Len(s) THEN <<cur>>
    ELSE IF s[i] = sep THEN <<cur>> \o SplitFrom(s, sep, i + 1, <<>>)
    ELSE SplitFrom(s, sep, i + 1, Append(cur, s[i]))

Split(s, sep) == SplitFrom(s, sep, 1, <<>>)

\* s.split(): split on runs of whitespace, no empty pieces
SplitWhitespace(s) == SelectSeq(Split(s, " "), LAMBDA p : p # <<>>)

\* text_to_morse without char.upper()
text_to_morse_no_upper(t) ==
    Join(<<" ">>, [i \in 1..Len(t) |-> Get(MORSE_CODE_DICT, t[i], <<>>)])

text_to_morse(t) ==
    Join(<<" ">>, [i \in 1..Len(t) |-> Get(MORSE_CODE_DICT, upper(t[i]), <<>>)])

morse_to_text(m) ==
    LET codes == SplitWhitespace(m)
    IN  Join(<<>>, [i \in 1..Len(codes) |->
                        Get(REVERSE_MORSE_CODE_DICT, codes[i], <<>>)])

-----------------------------------------------------------------------------
(* steg_core.py: Morse <-> bitstream *)

Zeros(n) == [i \in 1..n |-> "0"]
Ones(n) == [i \in 1..n |-> "1"]

\* an end marker one bit shorter
END_MARKER_BITS_19 == Zeros(19)

END_MARKER_BITS == Zeros(20)

\* s[:-n]
DropLast(s, n) == IF Len(s) <= n THEN <<>> ELSE SubSeq(s, 1, Len(s) - n)

\* s.rstrip('0')
RECURSIVE RStripZeros(_)
RStripZeros(s) ==
    IF Len(s) > 0 /\ s[Len(s)] = "0" THEN RStripZeros(DropLast(s, 1)) ELSE s

\* s.strip() on a string whose only whitespace is the space
RECURSIVE RStripSpaces(_)
RStripSpaces(s) ==
    IF Len(s) > 0 /\ s[Len(s)] = " " THEN RStripSpaces(DropLast(s, 1)) ELSE s

RECURSIVE LStripSpaces(_)
LStripSpaces(s) ==
    IF Len(s) > 0 /\ s[1] = " " THEN LStripSpaces(Tail(s)) ELSE s

Strip(s) == LStripSpaces(RStripSpaces(s))

\* for symbol in char: bitstream += '1' * (3 if symbol == '-' else 1) + '0'
RECURSIVE EmitSymbols(_, _, _)
EmitSymbols(bs, char, i) ==
    IF i > Len(char) THEN bs
    ELSE EmitSymbols(bs \o Ones(IF char[i] = "-" THEN 3 ELSE 1) \o <<"0">>,
                     char, i + 1)

\* for char in word.split(' '): ...; bitstream = bitstream[:-1] + '000'
RECURSIVE EmitChars(_, _, _)
EmitChars(bs, chars, i) ==
    IF i > Len(chars) THEN bs
    ELSE EmitChars(DropLast(EmitSymbols(bs, chars[i], 1), 1) \o Zeros(3),
                   chars, i + 1)

\* for word in morse.split('/'): ...; bitstream = bitstream[:-3] + '0000000'
RECURSIVE EmitWords(_, _, _)
EmitWords(bs, words, i) ==
    IF i > Len(words) THEN bs
    ELSE EmitWords(DropLast(EmitChars(bs, Split(words[i], " "), 1), 3) \o Zeros(7),
                   words, i + 1)

\* the sentinel appended to the Morse string
Sentinel(m) == m \o <<"|">>

morse_to_bitstream(m) ==
    RStripZeros(EmitWords(<<>>, Split(Sentinel(m), "/"), 1)) \o END_MARKER_BITS

\* the outcome of a call: a returned value or the exception raised
Ok(v) == [kind |-> "ok", value |-> v]
Raise(e) == [kind |-> e, value |-> <<>>]
NotCalled == [kind |-> "none", value |-> <<>>]

\* bits.index(pat): 0-based position of the first occurrence, -1 if none
Index(bits, pat) ==
    LET hits == {i \in 0..(Len(bits) - Len(pat)) :
                    SubSeq(bits, i + 1, i + Len(pat)) = pat}
    IN  IF hits = {} THEN -1
        ELSE CHOOSE i \in hits : \A j \in hits : i <= j

\* the run-length loop over bits[1:], started with prev = bits[0], count = 1
RECURSIVE RunsFrom(_, _, _, _, _)
RunsFrom(bits, i, prev, count, runs) ==
    IF i > Len(bits) THEN Append(runs, <<prev, count>>)
    ELSE IF bits[i] = prev THEN RunsFrom(bits, i + 1, prev, count + 1, runs)
    ELSE RunsFrom(bits, i + 1, bits[i], 1, Append(runs, <<prev, count>>))

\* what one run adds to the Morse string
RunSymbol(bit, length) ==
    IF bit = "1" THEN (IF length >= 3 THEN <<"-">> ELSE <<".">>)
    ELSE IF length >= 7 THEN <<" ", "/", " ">>
    ELSE IF length >= 3 THEN <<" ">>
    ELSE <<>>

RECURSIVE RunsToMorse(_, _)
RunsToMorse(runs, i) ==
    IF i > Len(runs) THEN <<>>
    ELSE RunSymbol(runs[i][1], runs[i][2]) \o RunsToMorse(runs, i + 1)

bitstream_to_morse(bits) ==
    LET at == Index(bits, END_MARKER_BITS)
        body == SubSeq(bits, 1, at)
    IN  IF at = -1 THEN Raise("MessageNotFoundError")
        ELSE IF body = <<>> THEN Raise("IndexError")      \* bits[0] of ''
        ELSE Ok(Strip(RunsToMorse(RunsFrom(body, 2, body[1], 1, <<>>), 1)))

-----------------------------------------------------------------------------
(* steg_core.py: the samples and their least-significant bits *)

\* numpy int16: the two's-complement bit pattern of a sample, and back
ToU16(x) == x % 65536
ToI16(u) == IF u >= 32768 THEN u - 65536 ELSE u

RECURSIVE AndBits(_, _, _)
AndBits(a, b, n) ==
    IF n = 0 THEN 0
    ELSE 2 * AndBits(a \div 2, b \div 2, n - 1)
         + (IF a % 2 = 1 /\ b % 2 = 1 THEN 1 ELSE 0)

RECURSIVE OrBits(_, _, _)
OrBits(a, b, n) ==
    IF n = 0 THEN 0
    ELSE 2 * OrBits(a \div 2, b \div 2, n - 1)
         + (IF a % 2 = 1 \/ b % 2 = 1 THEN 1 ELSE 0)

\* x & y, x | y and ~x on int16
And16(x, y) == ToI16(AndBits(ToU16(x), ToU16(y), 16))
Or16(x, y) == ToI16(OrBits(ToU16(x), ToU16(y), 16))
Not16(x) == -x - 1

\* int(bit) and str(sample & 1)
BitValue(bit) == IF bit = "1" THEN 1 ELSE 0
BitChar(v) == IF v = 1 THEN "1" ELSE "0"

\* samples_mod[i] | int(bit): the old bit is not cleared
SetLSB_no_clear(sample, bit) == Or16(sample, BitValue(bit))

\* (samples_mod[i] & ~1) | int(bit)
SetLSB(sample, bit) == Or16(And16(sample, Not16(1)), BitValue(bit))

\* the capacity check with >= in place of >
TooLong_ge(bs, buf) == Len(bs) >= Len(buf)

\* if len(bitstream) > len(samples): raise MessageTooLongError
TooLong(bs, buf) == Len(bs) > Len(buf)

\* i % (total // 100) == 0 raises ZeroDivisionError in the first iteration
\* when a callback is given and total // 100 is 0
CallbackDividesByZero(cb, total) == cb /\ total > 0 /\ total \div 100 = 0

\* the embedding loop over enumerate(bitstream); an exception leaves the
\* loop with only the first sample written
EmbedLoop(buf, bs, cb) ==
    IF CallbackDividesByZero(cb, Len(bs))
    THEN [kind |-> "ZeroDivisionError",
          buf  |-> [buf EXCEPT ![1] = SetLSB(buf[1], bs[1])]]
    ELSE [kind |-> "ok",
          buf  |-> [i \in 1..Len(buf) |->
                       IF i <= Len(bs) THEN SetLSB(buf[i], bs[i]) ELSE buf[i]]]

Absent == <<"absent">>

\* embed_message as a function of the input file's content: its outcome,
\* its locals when it returns, and what it wrote to output_wav
embed_message(input, msg, cb) ==
    LET m  == text_to_morse(msg)
        bs == morse_to_bitstream(m)
        none == [result |-> NotCalled, morse |-> m, bitstream |-> bs,
                 samples |-> <<>>, samples_mod |-> <<>>, written |-> Absent]
    IN  IF input = Absent
        THEN [none EXCEPT !.result = Raise("InvalidAudioFileError")]
        ELSE IF TooLong(bs, input)
        THEN [none EXCEPT !.result = Raise("MessageTooLongError"),
                          !.samples = input]
        ELSE LET loop == EmbedLoop(input, bs, cb)
             IN  [none EXCEPT !.result = IF loop.kind = "ok" THEN Ok(<<>>)
                                         ELSE Raise(loop.kind),
                              !.samples = input,
                              !.samples_mod = loop.buf,
                              !.written = IF loop.kind = "ok" THEN loop.buf
                                          ELSE Absent]

\* bits.append(str(sample & 1)) for every sample
ExtractBits(buf) == [i \in 1..Len(buf) |-> BitChar(And16(buf[i], 1))]

extract_message(stego, cb) ==
    IF stego = Absent THEN Raise("InvalidAudioFileError")
    ELSE IF CallbackDividesByZero(cb, Len(stego)) THEN Raise("ZeroDivisionError")
    ELSE LET m == bitstream_to_morse(ExtractBits(stego))
         IN  IF m.kind = "ok" THEN Ok(morse_to_text(m.value)) ELSE m

-----------------------------------------------------------------------------
(* The codec functions applied one after the other to a message *)

RECURSIVE SeqsUpTo(_, _)
SeqsUpTo(S, n) ==
    IF n = 0 THEN {<<>>}
    ELSE LET shorter == SeqsUpTo(S, n - 1)
         IN  shorter \cup {Append(s, c) : s \in {t \in shorter : Len(t) = n - 1}, c \in S}

Messages == SeqsUpTo(Chars, MaxMsgLen)

Idle ==
    /\ progress_callback = FALSE
    /\ files = [p \in {"in.wav", "out.wav"} |-> Absent]
    /\ samples = <<>>
    /\ samples_mod = <<>>
    /\ embed_result = NotCalled
    /\ stego_wav = ""
    /\ extract_result = NotCalled

InitCodec ==
    /\ pc = "text"
    /\ message \in Messages
    /\ morse = <<>>
    /\ bitstream = <<>>
    /\ decoded = NotCalled
    /\ text = <<>>
    /\ Idle

TextToMorse ==
    /\ pc = "text"
    /\ morse' = text_to_morse(message)
    /\ pc' = "morse"
    /\ UNCHANGED <<message, progress_callback, files, samples, samples_mod,
                   embed_result, stego_wav, extract_result, bitstream, decoded, text>>

MorseToBitstream ==
    /\ pc = "morse"
    /\ bitstream' = morse_to_bitstream(morse)
    /\ pc' = "bits"
    /\ UNCHANGED <<message, progress_callback, files, samples, samples_mod,
                   embed_result, stego_wav, extract_result, morse, decoded, text>>

BitstreamToMorse ==
    /\ pc = "bits"
    /\ decoded' = bitstream_to_morse(bitstream)
    /\ pc' = IF decoded'.kind = "ok" THEN "decoded" ELSE "raised"
    /\ UNCHANGED <<message, progress_callback, files, samples, samples_mod,
                   embed_result, stego_wav, extract_result, morse, bitstream, text>>

MorseToText ==
    /\ pc = "decoded"
    /\ text' = morse_to_text(decoded.value)
    /\ pc' = "done"
    /\ UNCHANGED <<message, progress_callback, files, samples, samples_mod,
                   embed_result, stego_wav, extract_result, morse, bitstream, decoded>>

NextCodec == TextToMorse \/ MorseToBitstream \/ BitstreamToMorse \/ MorseToText

SpecCodec == InitCodec /\ [][NextCodec]_vars

-----------------------------------------------------------------------------
(* bitstream_to_morse applied to arbitrary bits *)

\* a bit string is drawn as a list of run lengths of alternating bits
MaxRuns == 3
RunLens == {1, 2, 3, 6, 7, 19, 20, 21}

OtherBit(b) == IF b = "1" THEN "0" ELSE "1"

RECURSIVE BitsOfRuns(_, _)
BitsOfRuns(first, runs) ==
    IF runs = <<>> THEN <<>>
    ELSE [i \in 1..runs[1] |-> first] \o BitsOfRuns(OtherBit(first), Tail(runs))

RawBits == {BitsOfRuns(b, r) : b \in {"0", "1"}, r \in SeqsUpTo(RunLens, MaxRuns)}

InitDecode ==
    /\ pc = "bits"
    /\ bitstream \in RawBits
    /\ message = <<>>
    /\ morse = <<>>
    /\ decoded = NotCalled
    /\ text = <<>>
    /\ Idle

NextDecode == BitstreamToMorse \/ MorseToText

SpecDecode == InitDecode /\ [][NextDecode]_vars

-----------------------------------------------------------------------------
(* embed_message and extract_message on WAV files *)

Paths == {"in.wav", "out.wav"}

\* sample sequences: a repeated pattern of sample values (a short file, too
\* small for most messages), ...
ShortLens == {0, 22, 23, 24, 35}
SamplePatterns == {<<0>>, <<-1>>, <<-32768, 32767, 3, -2>>}
PatternSeq(pat, n) == [i \in 1..n |-> pat[((i - 1) % Len(pat)) + 1]]

\* ... one odd sample, a run of even samples and maybe one more odd sample, ...
ZeroRunLens == {19, 20, 21}
RunSeq(z, tail) == <<1>> \o [i \in 1..z |-> -2] \o [i \in 1..tail |-> 32767]

\* ... or 100 zero-valued samples (room for every message)
SampleSeqs ==
    {PatternSeq(pat, n) : pat \in SamplePatterns, n \in ShortLens}
    \cup {RunSeq(z, tail) : z \in ZeroRunLens, tail \in {0, 1}}
    \cup {PatternSeq(<<0>>, 100)}

InitFiles(callbacks) ==
    /\ pc = "start"
    /\ message \in Messages
    /\ progress_callback \in callbacks
    /\ \E s \in SampleSeqs : files = [p \in Paths |-> IF p = "in.wav" THEN s ELSE Absent]
    /\ samples = <<>>
    /\ samples_mod = <<>>
    /\ embed_result = NotCalled
    /\ stego_wav = ""
    /\ extract_result = NotCalled
    /\ morse = <<>>
    /\ bitstream = <<>>
    /\ decoded = NotCalled
    /\ text = <<>>

\* cli.py calls embed_message and extract_message without a callback
Init == InitFiles({FALSE})

\* the functions called directly, with or without a callback
InitCallback == InitFiles({FALSE, TRUE})

\* embed_message("in.wav", message, "out.wav", progress_callback)
EmbedMessage ==
    /\ pc = "start"
    /\ \E r \in {embed_message(files["in.wav"], message, progress_callback)} :
           /\ embed_result' = r.result
           /\ morse' = r.morse
           /\ bitstream' = r.bitstream
           /\ samples' = r.samples
           /\ samples_mod' = r.samples_mod
           /\ files' = IF r.result.kind = "ok"
                       THEN [files EXCEPT !["out.wav"] = r.written]
                       ELSE files
    /\ pc' = "embedded"
    /\ UNCHANGED <<message, progress_callback, stego_wav, extract_result,
                   decoded, text>>

\* extract_message(path, progress_callback)
ExtractMessage ==
    /\ pc \in {"start", "embedded"}
    /\ \E path \in Paths :
        /\ stego_wav' = path
        /\ extract_result' = extract_message(files[path], progress_callback)
    /\ pc' = "extracted"
    /\ UNCHANGED <<message, progress_callback, files, samples, samples_mod,
                   embed_result, morse, bitstream, decoded, text>>

Next == EmbedMessage \/ ExtractMessage

Spec == Init /\ [][Next]_vars

SpecCallback == InitCallback /\ [][Next]_vars

-----------------------------------------------------------------------------
(* Properties *)

\* the characters of the Morse alphabet, letters in either case
Supported(m) ==
    \A i \in 1..Len(m) :
        \/ \E k \in 1..Len(MORSE_CODE_DICT) : MORSE_CODE_DICT[k][1] = m[i]
        \/ \E k \in 1..Len(UpperTable) : UpperTable[k][1] = m[i]

Uppercase(m) ==
    [i \in 1..Len(m) |->
        IF \E k \in 1..Len(UpperTable) : UpperTable[k][1] = m[i]
        THEN LET k == CHOOSE k \in 1..Len(UpperTable) : UpperTable[k][1] = m[i]
             IN  UpperTable[k][2]
        ELSE m[i]]

\* the least-significant bits of buf hold n consecutive zeros
HasZeroRun(buf, n) ==
    \E i \in 1..(Len(buf) - n + 1) : \A j \in i..(i + n - 1) : buf[j] % 2 = 0

\* the maximal runs of a non-empty bit string, as <<bit, length>> pairs
MaximalRuns(bits) ==
    LET starts == {i \in 1..Len(bits) : i = 1 \/ bits[i] # bits[i - 1]}
        EndOf(i) == CHOOSE e \in i..Len(bits) :
                        /\ \A j \in i..e : bits[j] = bits[i]
                        /\ (e = Len(bits) \/ bits[e + 1] # bits[i])
    IN  {<<bits[i], EndOf(i) - i + 1>> : i \in starts}

Embedded == embed_result.kind # "none"
Decoded == pc \in {"decoded", "raised", "done"}

\* C1: embedding a message of alphabet characters whose bitstream fits the
\* samples and then extracting from the written file returns the message in
\* upper case.
C1_EndToEndRoundTrip ==
    (/\ pc = "extracted"
     /\ stego_wav = "out.wav"
     /\ Embedded
     /\ Supported(message)
     /\ Len(bitstream) <= Len(files["in.wav"]))
    => /\ embed_result.kind = "ok"
       /\ extract_result = Ok(Uppercase(message))

\* C2: decoding the bitstream of a Morse string made by text_to_morse from
\* alphabet characters gives back the same Morse tokens.
C2_BitstreamRoundTrip ==
    (Decoded /\ Supported(message))
    => /\ decoded.kind = "ok"
       /\ SplitWhitespace(decoded.value) = SplitWhitespace(morse)

\* C3: no two characters of the alphabet share a Morse symbol string, and
\* for a message of alphabet characters morse_to_text(text_to_morse(m)) is
\* the message in upper case.
C3_TextMorseRoundTrip ==
    /\ \A i, j \in 1..Len(MORSE_CODE_DICT) :
          MORSE_CODE_DICT[i][2] = MORSE_CODE_DICT[j][2] => i = j
    /\ (pc # "text" /\ Supported(message))
       => morse_to_text(morse) = Uppercase(message)

C3_Witness ==
    /\ pc = "morse"
    /\ message = <<"e", " ", " ">>
    /\ morse = <<".", " ", "/", " ", "/">>
    /\ morse_to_text(morse) = <<"E", " ", " ">>

C6_LsbOnlyMutation ==
    embed_result.kind = "ok"
    => /\ samples = files["in.wav"]
       /\ Len(samples_mod) = Len(samples)
       /\ files["out.wav"] = samples_mod
       /\ \A i \in 1..Len(samples) :
             IF i <= Len(bitstream)
             THEN /\ samples_mod[i] % 2 = (IF bitstream[i] = "1" THEN 1 ELSE 0)
                  /\ samples_mod[i] - (samples_mod[i] % 2)
                        = samples[i] - (samples[i] % 2)
                  /\ samples_mod[i] - samples[i] \in {-1, 0, 1}
                  /\ samples_mod[i] \in -32768..32767
             ELSE samples_mod[i] = samples[i]

C6_Witness ==
    /\ embed_result.kind = "ok"
    /\ Len(bitstream) < Len(samples)
    /\ \E i \in 1..Len(bitstream) : samples[i] < 0 /\ samples_mod[i] = samples[i] + 1
    /\ \E i \in 1..Len(bitstream) : samples[i] > 0 /\ samples_mod[i] = samples[i] - 1

\* C7: the bitstream of a message of alphabet characters ends with the end
\* marker and holds no earlier occurrence of it.
C7_MarkerUnambiguous ==
    (pc \in {"bits", "decoded", "raised", "done"} /\ Supported(message))
    => /\ Len(bitstream) >= Len(END_MARKER_BITS)
       /\ Index(bitstream, END_MARKER_BITS) = Len(bitstream) - Len(END_MARKER_BITS)

\* C8: with a callback that does nothing, embed_message and extract_message
\* have the outcome they have without a callback.
C8_CallbackNoEffect ==
    /\ Embedded
       => \E r \in {embed_message(files["in.wav"], message, FALSE)} :
             /\ embed_result = r.result
             /\ files["out.wav"] = r.written
    /\ pc = "extracted"
       => extract_result = extract_message(files[stego_wav], FALSE)

\* C9: bitstream_to_morse returns a Morse string or raises
\* MessageNotFoundError, and returns the empty string when the marker is at
\* position 0.
C9_DecodeTotal ==
    Decoded
    => /\ decoded.kind \in {"ok", "MessageNotFoundError"}
       /\ Index(bitstream, END_MARKER_BITS) = 0 => decoded = Ok(<<>>)

\* C10: before the end marker every run of ones of an encoded bitstream has
\* length 1 or 3 and every run of zeros has length 1, 3 or 7 (stated here for
\* the messages of alphabet characters, where no character is dropped).
C10_CanonicalRuns ==
    (pc \in {"bits", "decoded", "raised", "done"} /\ Supported(message))
    => \A run \in MaximalRuns(DropLast(bitstream, Len(END_MARKER_BITS))) :
          IF run[1] = "1" THEN run[2] \in {1, 3} ELSE run[2] \in {1, 3, 7}

====
